---- MODULE Spec2Model ----
(***************************************************************************)
(* Flight ticket price prediction form (app.py).                           *)
(*                                                                         *)
(* The script is re-executed from top to bottom on every user interaction; *)
(* what survives between two executions is the widget state kept by the    *)
(* presentation framework and the two caches filled by load_artifacts and  *)
(* load_route_summary.  One action of the model is one interaction: the    *)
(* widget change followed by the complete script run it triggers.          *)
(*                                                                         *)
(* Representation of the numbers:                                          *)
(*  - a duration in hours (a float) is a pair [min, sub]: whole minutes    *)
(*    plus a remainder counted in tenths of a microsecond, so that the     *)
(*    microsecond rounding of timedelta is part of the model;              *)
(*  - money is an exact rational counted in 1/4000 rupee (a base price in  *)
(*    whole paise keeps base * 0.025 exact);                               *)
(*  - a date is a day number counted from BaseDate, converted to           *)
(*    (year, month, day) by the calendar rules.                            *)
(***************************************************************************)
EXTENDS Integers, Sequences, FiniteSets, TLC

VARIABLES disk, cache, loadCount, w, run, everFailed, probe, tIn, tOut

vars == <<disk, cache, loadCount, w, run, everFailed, probe, tIn, tOut>>

appVars == <<disk, cache, loadCount, w, run, everFailed, probe>>

timeVars == <<tIn, tOut>>

None == [kind |-> "none"]

(***************************************************************************)
(* Bounds of the model.                                                    *)
(***************************************************************************)
\* durations drawn for the time functions: 0 .. MaxQuarters quarter hours
MaxQuarters == 104

\* the dates a user picks: day numbers 0 .. MaxDay (flight dates one more)
MaxDay == 1

\* selection widgets (the dates apart) a session holds away from their
\* defaults at any one time
MaxChanged == 1

(***************************************************************************)
(* Helpers: get_time_bucket, departure_hour_map, arrival time.             *)
(***************************************************************************)
Buckets == <<"Early Morning", "Morning", "Afternoon", "Evening", "Night", "Late Night">>

get_time_bucket_late_first(hour) ==
    IF 5 < hour /\ hour < 9 THEN "Early Morning"
    ELSE IF 9 <= hour /\ hour < 13 THEN "Morning"
    ELSE IF 13 <= hour /\ hour < 17 THEN "Afternoon"
    ELSE IF 17 <= hour /\ hour < 21 THEN "Evening"
    ELSE IF 21 <= hour /\ hour < 24 THEN "Night"
    ELSE "Late Night"

get_time_bucket(hour) ==
    IF 5 <= hour /\ hour < 9 THEN "Early Morning"
    ELSE IF 9 <= hour /\ hour < 13 THEN "Morning"
    ELSE IF 13 <= hour /\ hour < 17 THEN "Afternoon"
    ELSE IF 17 <= hour /\ hour < 21 THEN "Evening"
    ELSE IF 21 <= hour /\ hour < 24 THEN "Night"
    ELSE "Late Night"

departure_hour_map_late_night_2 ==
    [b \in {Buckets[i] : i \in 1..Len(Buckets)} |->
        CASE b = "Early Morning" -> 6
          [] b = "Morning" -> 10
          [] b = "Afternoon" -> 14
          [] b = "Evening" -> 18
          [] b = "Night" -> 22
          [] b = "Late Night" -> 2]

departure_hour_map ==
    [b \in {Buckets[i] : i \in 1..Len(Buckets)} |->
        CASE b = "Early Morning" -> 6
          [] b = "Morning" -> 10
          [] b = "Afternoon" -> 14
          [] b = "Evening" -> 18
          [] b = "Night" -> 22
          [] b = "Late Night" -> 23]

\* tenths of a microsecond in one minute, and in one microsecond
SubPerMinute == 600000000

SubPerMicro == 10

MicrosPerMinute == 60000000

\* round(n / d) to the nearest integer, ties to the even one, for n >= 0, d > 0
RoundHalfEven(n, d) ==
    LET q == n \div d
        r == n % d
    IN  IF 2 * r < d THEN q
        ELSE IF 2 * r > d THEN q + 1
        ELSE IF q % 2 = 0 THEN q ELSE q + 1

\* timedelta(hours=duration): normalised, microseconds rounded half to even
Timedelta(duration) ==
    LET us == RoundHalfEven(duration.sub, SubPerMicro)
    IN  IF us = MicrosPerMinute
        THEN [min |-> duration.min + 1, us |-> 0]
        ELSE [min |-> duration.min, us |-> us]

ArrivalNoWrap(dep_hour, duration) ==
    LET td == Timedelta(duration)
        total == dep_hour * 60 + td.min
    IN  [hour |-> total \div 60, minute |-> total % 60, us |-> td.us]

\* datetime(2000, 1, 1, dep_hour, 0) + timedelta(hours=duration): the clock
\* fields of the result (the date part is not read by the script)
ArrivalDt(dep_hour, duration) ==
    LET td == Timedelta(duration)
        total == dep_hour * 60 + td.min
    IN  [hour |-> (total \div 60) % 24, minute |-> total % 60, us |-> td.us]

\* lines 175-180 for one departure bucket and one duration
ArrivalOf(departure_time, duration) ==
    LET dep_hour == departure_hour_map[departure_time]
        arrival_dt == ArrivalDt(dep_hour, duration)
    IN  [dep_hour |-> dep_hour,
         arrival_dt |-> arrival_dt,
         arrival_bucket |-> get_time_bucket(arrival_dt.hour)]

(***************************************************************************)
(* The time functions applied to drawn inputs.                             *)
(***************************************************************************)
BucketSet == {Buckets[i] : i \in 1..Len(Buckets)}

\* remainders around the rounding points of a microsecond and of a minute
SubChoices == {0, 4, 5, 6, 15, SubPerMinute - 6, SubPerMinute - 5, SubPerMinute - 4}

MinuteChoices == {15 * q + d : q \in 0..MaxQuarters, d \in {0, 14}}

Durations == [min : MinuteChoices, sub : SubChoices]

TimeInputs ==
    {[kind |-> "hour", hour |-> h, departure_time |-> "Early Morning",
      duration |-> [min |-> 0, sub |-> 0]] : h \in 0..23}
    \cup
    {[kind |-> "trip", hour |-> 0, departure_time |-> b, duration |-> d] :
        b \in BucketSet, d \in Durations}

ApplyBucket ==
    /\ tIn.kind = "hour"
    /\ tOut.kind = "none"
    /\ tOut' = [kind |-> "bucket", bucket |-> get_time_bucket(tIn.hour)]
    /\ UNCHANGED <<tIn, appVars>>

ApplyArrival ==
    /\ tIn.kind = "trip"
    /\ tOut.kind = "none"
    /\ tOut' = [kind |-> "arrival",
                res |-> ArrivalOf(tIn.departure_time, tIn.duration)]
    /\ UNCHANGED <<tIn, appVars>>

(***************************************************************************)
(* Dates: datetime.date as a day number counted from BaseDate.             *)
(***************************************************************************)
BaseDate == [year |-> 2023, month |-> 12, day |-> 30]

\* datetime.today(), as a day number
Today == 0

IsLeap(y) == (y % 4 = 0 /\ y % 100 # 0) \/ y % 400 = 0

DaysInMonth(y, m) ==
    IF m = 2 THEN (IF IsLeap(y) THEN 29 ELSE 28)
    ELSE IF m \in {4, 6, 9, 11} THEN 30 ELSE 31

NextDay(d) ==
    IF d.day < DaysInMonth(d.year, d.month)
    THEN [d EXCEPT !.day = d.day + 1]
    ELSE IF d.month < 12
    THEN [year |-> d.year, month |-> d.month + 1, day |-> 1]
    ELSE [year |-> d.year + 1, month |-> 1, day |-> 1]

RECURSIVE DateOf(_)
\* the .year, .month and .day of the date n days after BaseDate
DateOf(n) == IF n = 0 THEN BaseDate ELSE NextDay(DateOf(n - 1))

(***************************************************************************)
(* The artifacts on disk: the pickled model with its two feature-name      *)
(* lists, and route_summary.csv.                                           *)
(***************************************************************************)
X_columns_swapped ==
    <<"AIRLINE", "DESTINATION CITY", "STOPS", "SOURCE CITY", "PRICE CLASS",
      "BOOKING YEAR", "BOOKING MONTH", "BOOKING DAY", "DAYS LEFT",
      "FLIGHT YEAR", "FLIGHT MONTH", "FLIGHT DAY",
      "DEPARTURE TIME", "DURATION", "ARRIVAL TIME">>

X_columns ==
    <<"AIRLINE", "SOURCE CITY", "STOPS", "DESTINATION CITY", "PRICE CLASS",
      "BOOKING YEAR", "BOOKING MONTH", "BOOKING DAY", "DAYS LEFT",
      "FLIGHT YEAR", "FLIGHT MONTH", "FLIGHT DAY",
      "DEPARTURE TIME", "DURATION", "ARRIVAL TIME">>

\* the columns the pickled model was fitted on
TrainedColumns ==
    <<"AIRLINE", "SOURCE CITY", "STOPS", "DESTINATION CITY", "PRICE CLASS",
      "BOOKING YEAR", "BOOKING MONTH", "BOOKING DAY", "DAYS LEFT",
      "FLIGHT YEAR", "FLIGHT MONTH", "FLIGHT DAY",
      "DEPARTURE TIME", "DURATION", "ARRIVAL TIME">>

Airlines == <<"SpiceJet", "AirAsia", "Vistara", "GO FIRST", "Indigo", "Air India">>

StopsOptions == <<"Zero", "One", "Two or More">>

PriceClasses == <<"Economy", "Premium Economy", "Business", "First Class", "Luxury">>

MinPassengers == 1

MaxPassengers == 9

DefaultPassengers == 1

SeqToSet(s) == {s[i] : i \in 1..Len(s)}

IndexOf(s, x) == CHOOSE i \in 1..Len(s) : s[i] = x

\* str.upper on the column names a route file carries
Upper(name) ==
    CASE name \in {"source city", "Source City", "SOURCE CITY"} -> "SOURCE CITY"
      [] name \in {"destination city", "Destination City", "DESTINATION CITY"} -> "DESTINATION CITY"
      [] name \in {"min_duration", "Min_Duration", "MIN_DURATION"} -> "MIN_DURATION"
      [] OTHER -> name

Hours(h, m) == [min |-> 60 * h + m, sub |-> 0]

\* just under three hours: 3 h minus 0.4 microseconds
AlmostThreeHours == [min |-> 179, sub |-> SubPerMinute - 4]

\* the order of the city names under sorted()
CityOrder == <<"Delhi", "Mumbai", "Pune">>

FlatModel ==
    [base |-> 100000, perDay |-> 0, perMinute |-> 0, perClass |-> 0,
     faultStops |-> "-", schema |-> TrainedColumns]

FeatureModel ==
    [base |-> 234560, perDay |-> 0 - 5000, perMinute |-> 120, perClass |-> 150000,
     faultStops |-> "Two or More", schema |-> TrainedColumns]

CategoricalFeatures ==
    <<"AIRLINE", "SOURCE CITY", "STOPS", "DESTINATION CITY", "PRICE CLASS",
      "DEPARTURE TIME", "ARRIVAL TIME">>

NumericFeatures ==
    <<"BOOKING YEAR", "BOOKING MONTH", "BOOKING DAY", "DAYS LEFT",
      "FLIGHT YEAR", "FLIGHT MONTH", "FLIGHT DAY", "DURATION">>

RouteFiles ==
    << [columns |-> <<"source city", "destination city", "min_duration">>,
        rows |-> << <<"Delhi", "Mumbai", Hours(2, 0)>> >>],
       [columns |-> <<"Source City", "Destination City", "MIN_DURATION">>,
        rows |-> << <<"Delhi", "Mumbai", Hours(2, 0)>>,
                    <<"Mumbai", "Pune", AlmostThreeHours>>,
                    <<"Pune", "Delhi", Hours(4, 30)>>,
                    <<"Delhi", "Mumbai", Hours(0, 45)>> >>] >>

DiskChoices ==
    { [present |-> TRUE, model |-> FlatModel, route |-> RouteFiles[1]],
      [present |-> TRUE, model |-> FeatureModel, route |-> RouteFiles[2]],
      [present |-> FALSE, model |-> FlatModel, route |-> RouteFiles[1]] }

EmptyCache == [loaded |-> FALSE]

(***************************************************************************)
(* Loading (lines 22-36).  st.cache_resource and st.cache_data keep the    *)
(* value of the first successful call for the life of the process; a call  *)
(* that raises caches nothing and ends the script run.                     *)
(***************************************************************************)
ReadArtifacts(d) ==
    [loaded |-> TRUE,
     model |-> d.model,
     categorical_columns |-> CategoricalFeatures,
     numerical_columns |-> NumericFeatures,
     route_summary |->
        [columns |-> [i \in 1..Len(d.route.columns) |-> Upper(d.route.columns[i])],
         rows |-> d.route.rows]]

LoadUncached(c, d, n) ==
    IF d.present
    THEN [ok |-> TRUE, cache |-> ReadArtifacts(d), count |-> n + 1]
    ELSE [ok |-> FALSE, cache |-> c, count |-> n]

\* load_artifacts() and load_route_summary() under their cache decorators
Load(c, d, n) ==
    IF c.loaded
    THEN [ok |-> TRUE, cache |-> c, count |-> n]
    ELSE IF d.present
    THEN [ok |-> TRUE, cache |-> ReadArtifacts(d), count |-> n + 1]
    ELSE [ok |-> FALSE, cache |-> c, count |-> n]

(***************************************************************************)
(* hours_to_hrs_mins (lines 41-47), on the exact duration.                 *)
(***************************************************************************)
hours_to_hrs_mins(hours_float) ==
    LET hrs == hours_float.min \div 60
        \* round((hours_float - hrs) * 60): the minutes, the remainder rounded
        whole == hours_float.min % 60
        mins == IF 2 * hours_float.sub < SubPerMinute THEN whole
                ELSE IF 2 * hours_float.sub > SubPerMinute THEN whole + 1
                ELSE IF whole % 2 = 0 THEN whole ELSE whole + 1
    IN  IF mins = 60 THEN [hrs |-> hrs + 1, mins |-> 0]
        ELSE [hrs |-> hrs, mins |-> mins]

(***************************************************************************)
(* Route lookup (lines 66-92).                                             *)
(***************************************************************************)
Column(df, name) == IndexOf(df.columns, name)

\* sorted(route_summary[name].unique())
SortedUnique(df, name) ==
    SelectSeq(CityOrder,
              LAMBDA c : \E i \in 1..Len(df.rows) : df.rows[i][Column(df, name)] = c)

DefaultDuration == Hours(1, 0)

RouteLookupAnyDirection(df, source, destination) ==
    LET hit == {i \in 1..Len(df.rows) :
                    \/ /\ df.rows[i][Column(df, "SOURCE CITY")] = source
                       /\ df.rows[i][Column(df, "DESTINATION CITY")] = destination
                    \/ /\ df.rows[i][Column(df, "SOURCE CITY")] = destination
                       /\ df.rows[i][Column(df, "DESTINATION CITY")] = source}
    IN  IF hit # {}
        THEN [duration |-> df.rows[CHOOSE i \in hit : \A j \in hit : i <= j]
                                  [Column(df, "MIN_DURATION")],
              warning |-> FALSE]
        ELSE [duration |-> DefaultDuration, warning |-> TRUE]

\* lines 81-90: the rows matching both cities, the first one's MIN_DURATION
RouteLookup(df, source, destination) ==
    LET route == {i \in 1..Len(df.rows) :
                    /\ df.rows[i][Column(df, "SOURCE CITY")] = source
                    /\ df.rows[i][Column(df, "DESTINATION CITY")] = destination}
    IN  IF route # {}
        THEN [duration |-> df.rows[CHOOSE i \in route : \A j \in route : i <= j]
                                  [Column(df, "MIN_DURATION")],
              warning |-> FALSE]
        ELSE [duration |-> DefaultDuration, warning |-> TRUE]

(***************************************************************************)
(* Widgets.  A widget without a key is identified by its parameters: its   *)
(* stored value is used only while the parameters are those it was         *)
(* rendered with, otherwise the widget starts again from its default.      *)
(***************************************************************************)
Unset == "(unset)"

NoCity == "(none)"

Selectbox(stored, options) ==
    IF stored \in SeqToSet(options) THEN stored
    ELSE IF Len(options) = 0 THEN NoCity ELSE options[1]

\* st.date_input(value=default, ...): stored is [key, val], key the default
\* the stored value was rendered with
DateInput(stored, default) ==
    IF stored.key = default THEN stored.val ELSE default

NumberInput(stored, lo, hi, default) ==
    IF stored \in lo..hi THEN stored ELSE default

FreshWidgets ==
    [src |-> Unset, dst |-> Unset,
     booking |-> [key |-> 0 - 1, val |-> 0 - 1],
     flight |-> [key |-> [value |-> 0 - 1, min_value |-> 0 - 1], val |-> 0 - 1],
     airline |-> Unset, stops |-> Unset, class |-> Unset, dep |-> Unset,
     passengers |-> 0]

(***************************************************************************)
(* Dates (lines 112-130).                                                  *)
(***************************************************************************)
\* min_value=booking_date + timedelta(days=1)
FlightMinValue(booking_date) == booking_date + 1

\* value=booking_date + timedelta(days=1)
FlightDefault(booking_date) == booking_date + 1

FlightKey(booking_date) ==
    [value |-> FlightDefault(booking_date), min_value |-> FlightMinValue(booking_date)]

FlightDateSticky(stored, booking_date) ==
    IF stored.val >= 0 THEN stored.val ELSE FlightDefault(booking_date)

\* the flight date widget: its identity is (value, min_value)
FlightDateInput(stored, booking_date) ==
    IF stored.key = FlightKey(booking_date) THEN stored.val
    ELSE FlightDefault(booking_date)

(***************************************************************************)
(* Prediction (lines 196-220).                                             *)
(***************************************************************************)
Assign(d, k, v) == (k :> v) @@ d

EmptyDict == [k \in {} |-> 0]

\* pd.DataFrame([[input_data[col] for col in X_columns]], columns=X_columns)
InputDf(input_data, columns) ==
    IF SeqToSet(columns) \subseteq DOMAIN input_data
    THEN [ok |-> TRUE,
          df |-> [i \in 1..Len(columns) |-> <<columns[i], input_data[columns[i]]>>]]
    ELSE [ok |-> FALSE, df |-> <<>>]

DfColumns(df) == [i \in 1..Len(df) |-> df[i][1]]

DfValue(df, name) == df[IndexOf(DfColumns(df), name)][2]

\* the fitted model: a deterministic function of the row, which raises on a
\* row it cannot take.  The value is in paise.
Predict(model, df) ==
    IF DfColumns(df) # model.schema
    THEN [ok |-> FALSE, cause |-> "columns do not match the fitted columns"]
    ELSE IF DfValue(df, "STOPS") = model.faultStops
    THEN [ok |-> FALSE, cause |-> "unknown category"]
    ELSE [ok |-> TRUE,
          paise |-> model.base
                    + model.perDay * DfValue(df, "DAYS LEFT")
                    + model.perMinute * DfValue(df, "DURATION").min
                    + model.perClass
                        * (IndexOf(PriceClasses, DfValue(df, "PRICE CLASS")) - 1)]

\* money is counted in 1/UnitsPerRupee rupee
UnitsPerRupee == 4000

UnitsPerPaisa == 40

\* 0.025 as TaxNum / TaxDen
TaxNum == 25

TaxDen == 1000

PriceResultOneTax(base_price, passengers) ==
    LET cgst == (base_price * TaxNum) \div TaxDen
        sgst == (base_price * TaxNum) \div TaxDen
        ticket_price == base_price + cgst
    IN  [kind |-> "price", base_price |-> base_price, cgst |-> cgst, sgst |-> sgst,
         ticket_price |-> ticket_price, passengers |-> passengers,
         total_price |-> ticket_price * passengers]

\* lines 210-213
PriceResult(base_price, passengers) ==
    LET cgst == (base_price * TaxNum) \div TaxDen
        sgst == (base_price * TaxNum) \div TaxDen
        ticket_price == base_price + cgst + sgst
        total_price == ticket_price * passengers
    IN  [kind |-> "price", base_price |-> base_price, cgst |-> cgst, sgst |-> sgst,
         ticket_price |-> ticket_price, passengers |-> passengers,
         total_price |-> total_price]

PredictionBlockUncaught(model, input_df, passengers) ==
    LET p == Predict(model, input_df)
    IN  IF p.ok THEN PriceResult(p.paise * UnitsPerPaisa, passengers)
        ELSE [kind |-> "crash", cause |-> p.cause]

PredictionBlockAfterFault(model, input_df, passengers) ==
    LET p == Predict(model, input_df)
    IN  IF ~p.ok THEN [kind |-> "error", cause |-> p.cause]
        ELSE PriceResult(p.paise * UnitsPerPaisa,
                         IF everFailed THEN passengers + 1 ELSE passengers)

\* lines 207-220: the try block and its handler
PredictionBlock(model, input_df, passengers) ==
    LET p == Predict(model, input_df)
    IN  IF p.ok THEN PriceResult(p.paise * UnitsPerPaisa, passengers)
        ELSE [kind |-> "error", cause |-> p.cause]

(***************************************************************************)
(* One execution of the script, top to bottom (lines 35-220).              *)
(*   c, n   the caches and the number of loads before the run              *)
(*   d      the files on disk                                              *)
(*   today  datetime.today(), as a day number                              *)
(*   ws     the widget state the run starts from                           *)
(*   clicked  whether this run was triggered by the Predict button         *)
(***************************************************************************)
RunScript(c, n, d, today, ws, clicked) ==
    LET ld == Load(c, d, n)
    IN  IF ~ld.ok
        THEN [cache |-> ld.cache, count |-> ld.count, w |-> ws,
              out |-> [kind |-> "load_error"]]
        ELSE
        LET route_summary == ld.cache.route_summary
            model == ld.cache.model
            sourceOptions == SortedUnique(route_summary, "SOURCE CITY")
            destOptions == SortedUnique(route_summary, "DESTINATION CITY")
            source == Selectbox(ws.src, sourceOptions)
            destination == Selectbox(ws.dst, destOptions)
            route == RouteLookup(route_summary, source, destination)
            duration == route.duration
            hm == hours_to_hrs_mins(duration)
            booking_date == DateInput(ws.booking, today)
            flight_date == FlightDateInput(ws.flight, booking_date)
            days_left == flight_date - booking_date
            airline == Selectbox(ws.airline, Airlines)
            stops == Selectbox(ws.stops, StopsOptions)
            class == Selectbox(ws.class, PriceClasses)
            departure_time == Selectbox(ws.dep, Buckets)
            arr == ArrivalOf(departure_time, duration)
            passengers == NumberInput(ws.passengers, MinPassengers, MaxPassengers,
                                      DefaultPassengers)
            d1 == Assign(EmptyDict, "SOURCE CITY", source)
            d2 == Assign(d1, "DESTINATION CITY", destination)
            d3 == Assign(d2, "DURATION", duration)
            d4 == Assign(d3, "BOOKING YEAR", DateOf(booking_date).year)
            d5 == Assign(d4, "BOOKING MONTH", DateOf(booking_date).month)
            d6 == Assign(d5, "BOOKING DAY", DateOf(booking_date).day)
            d7 == Assign(d6, "FLIGHT YEAR", DateOf(flight_date).year)
            d8 == Assign(d7, "FLIGHT MONTH", DateOf(flight_date).month)
            d9 == Assign(d8, "FLIGHT DAY", DateOf(flight_date).day)
            d10 == Assign(d9, "DAYS LEFT", days_left)
            d11 == Assign(d10, "AIRLINE", airline)
            d12 == Assign(d11, "STOPS", stops)
            d13 == Assign(d12, "PRICE CLASS", class)
            d14 == Assign(d13, "DEPARTURE TIME", departure_time)
            input_data == Assign(d14, "ARRIVAL TIME", arr.arrival_bucket)
            row == InputDf(input_data, X_columns)
            call == IF clicked /\ row.ok
                    THEN [kind |-> "call", df |-> row.df, passengers |-> passengers]
                    ELSE None
            display == IF ~clicked THEN None
                       ELSE IF ~row.ok THEN [kind |-> "crash", cause |-> "KeyError"]
                       ELSE PredictionBlock(model, row.df, passengers)
        IN  [cache |-> ld.cache, count |-> ld.count,
             w |-> [src |-> source, dst |-> destination,
                    booking |-> [key |-> today, val |-> booking_date],
                    flight |-> [key |-> FlightKey(booking_date), val |-> flight_date],
                    airline |-> airline, stops |-> stops, class |-> class,
                    dep |-> departure_time, passengers |-> passengers],
             out |-> [kind |-> "page",
                      sourceOptions |-> sourceOptions, destOptions |-> destOptions,
                      input_data |-> input_data, warning |-> route.warning,
                      hrs |-> hm.hrs, mins |-> hm.mins,
                      booking_date |-> booking_date, flight_date |-> flight_date,
                      days_left |-> days_left,
                      arrival_dt |-> arr.arrival_dt,
                      passengers |-> passengers,
                      clicked |-> clicked, call |-> call, display |-> display]]

(***************************************************************************)
(* History kept for the properties: whether a prediction has failed, and   *)
(* the probe, one (feature record, passenger count) fixed in advance with  *)
(* the result of the first successful prediction made with it.             *)
(***************************************************************************)
ProbeWidgets == [FreshWidgets EXCEPT !.passengers = 2]

ProbeKey(d) ==
    IF ~d.present THEN None
    ELSE RunScript(EmptyCache, 0, d, Today, ProbeWidgets, TRUE).out.call

\* seen counts the successful predictions made with the probe, up to two
ProbeAfter(pr, out) ==
    IF out.kind = "page" /\ out.display.kind = "price" /\ pr.key = out.call
    THEN [key |-> pr.key,
          first |-> IF pr.seen = 0 THEN out.display ELSE pr.first,
          seen |-> IF pr.seen < 2 THEN pr.seen + 1 ELSE 2]
    ELSE pr

Failed(out) == out.kind = "page" /\ out.display.kind \in {"error", "crash"}

\* 1 when a widget is not at the value a new session gives it
Away(value, default) == IF value = default THEN 0 ELSE 1

\* the number of selection widgets (the dates apart) that are not at the
\* value a new session gives them
Changed(ws) ==
    Away(ws.src, Selectbox(Unset, run.sourceOptions))
    + Away(ws.dst, Selectbox(Unset, run.destOptions))
    + Away(ws.airline, Airlines[1])
    + Away(ws.stops, StopsOptions[1])
    + Away(ws.class, PriceClasses[1])
    + Away(ws.dep, Buckets[1])
    + Away(ws.passengers, DefaultPassengers)

(***************************************************************************)
(* The interactions.                                                       *)
(***************************************************************************)
Init ==
    /\ disk \in DiskChoices
    /\ cache = EmptyCache
    /\ loadCount = 0
    /\ w = FreshWidgets
    /\ run = None
    /\ everFailed = FALSE
    /\ probe = [key |-> ProbeKey(disk), first |-> None, seen |-> 0]
    /\ tIn = None
    /\ tOut = None

\* the script run an interaction triggers, from widget state ws
Rerun(ws, clicked) ==
    \E r \in {RunScript(cache, loadCount, disk, Today, ws, clicked)} :
        /\ cache' = r.cache
        /\ loadCount' = r.count
        /\ w' = r.w
        /\ run' = r.out
        /\ everFailed' = (everFailed \/ Failed(r.out))
        /\ probe' = ProbeAfter(probe, r.out)
        /\ UNCHANGED <<disk, timeVars>>

\* a change of one widget by the user, and the run it triggers
Change(ws) ==
    /\ Changed(ws) <= MaxChanged
    /\ Rerun(ws, FALSE)

\* a browser opens the page: a new session, every widget at its default
OpenPage ==
    /\ tIn.kind = "none"
    /\ Rerun(FreshWidgets, FALSE)

\* the user asks for a rerun (the only thing left after a failed load)
Refresh ==
    /\ run.kind # "none"
    /\ Rerun(w, FALSE)

SelectSource ==
    /\ run.kind = "page"
    /\ \E c \in SeqToSet(run.sourceOptions) \ {w.src} :
          Change([w EXCEPT !.src = c])

SelectDestination ==
    /\ run.kind = "page"
    /\ \E c \in SeqToSet(run.destOptions) \ {w.dst} :
          Change([w EXCEPT !.dst = c])

ChangeBookingDate ==
    /\ run.kind = "page"
    /\ \E day \in (0..MaxDay) \ {w.booking.val} :
          Change([w EXCEPT !.booking.val = day])

\* the date picker offers the dates from min_value on
ChangeFlightDate ==
    /\ run.kind = "page"
    /\ \E day \in (w.flight.key.min_value..(MaxDay + 1)) \ {w.flight.val} :
          Change([w EXCEPT !.flight.val = day])

SelectAirline ==
    /\ run.kind = "page"
    /\ \E a \in SeqToSet(Airlines) \ {w.airline} :
          Change([w EXCEPT !.airline = a])

SelectStops ==
    /\ run.kind = "page"
    /\ \E a \in SeqToSet(StopsOptions) \ {w.stops} :
          Change([w EXCEPT !.stops = a])

SelectClass ==
    /\ run.kind = "page"
    /\ \E a \in SeqToSet(PriceClasses) \ {w.class} :
          Change([w EXCEPT !.class = a])

SelectDeparture ==
    /\ run.kind = "page"
    /\ \E b \in BucketSet \ {w.dep} :
          Change([w EXCEPT !.dep = b])

SetPassengers ==
    /\ run.kind = "page"
    /\ \E p \in (MinPassengers..MaxPassengers) \ {w.passengers} :
          Change([w EXCEPT !.passengers = p])

ClickPredict ==
    /\ run.kind = "page"
    /\ Rerun(w, TRUE)

Next ==
    \/ OpenPage
    \/ Refresh
    \/ SelectSource
    \/ SelectDestination
    \/ ChangeBookingDate
    \/ ChangeFlightDate
    \/ SelectAirline
    \/ SelectStops
    \/ SelectClass
    \/ SelectDeparture
    \/ SetPassengers
    \/ ClickPredict

Spec == Init /\ [][Next]_vars

(***************************************************************************)
(* The time functions on their own.                                        *)
(***************************************************************************)
InitTime ==
    /\ disk \in {dc \in DiskChoices : ~dc.present}
    /\ cache = EmptyCache
    /\ loadCount = 0
    /\ w = FreshWidgets
    /\ run = None
    /\ everFailed = FALSE
    /\ probe = [key |-> None, first |-> None, seen |-> 0]
    /\ tIn \in TimeInputs
    /\ tOut = None

NextTime == ApplyBucket \/ ApplyArrival

SpecTime == InitTime /\ [][NextTime]_vars

(***************************************************************************)
(* Properties.                                                             *)
(***************************************************************************)
\* the ranges of the six buckets as the specification states them
InRange(b, h) ==
    CASE b = "Early Morning" -> 5 <= h /\ h < 9
      [] b = "Morning" -> 9 <= h /\ h < 13
      [] b = "Afternoon" -> 13 <= h /\ h < 17
      [] b = "Evening" -> 17 <= h /\ h < 21
      [] b = "Night" -> 21 <= h /\ h < 24
      [] b = "Late Night" -> 0 <= h /\ h < 5

StatedBucket(h) == CHOOSE b \in BucketSet : InRange(b, h)

\* the representative hours as the specification states them
StatedHour(b) ==
    CASE b = "Early Morning" -> 6
      [] b = "Morning" -> 10
      [] b = "Afternoon" -> 14
      [] b = "Evening" -> 18
      [] b = "Night" -> 22
      [] b = "Late Night" -> 23

\* a remainder in tenths of a microsecond, to the nearest microsecond (ties to even)
NearestMicros(sub) ==
    IF sub % 10 = 5
    THEN (IF (sub \div 10) % 2 = 0 THEN sub \div 10 ELSE sub \div 10 + 1)
    ELSE (sub + 5) \div 10

\* the whole minutes of a duration rounded to the nearest microsecond
RoundedMinutes(d) == d.min + NearestMicros(d.sub) \div (60 * 1000000)

\* C1: for every hour h in 0..23 get_time_bucket(h) is one of the six buckets,
\* the one whose stated range contains h, and exactly one range contains h;
\* bucket(5) is Early Morning, bucket(4) Late Night, bucket(23) Night.
C1_BucketPartition ==
    tOut.kind = "bucket" =>
        /\ tIn.hour \in 0..23
        /\ tOut.bucket \in BucketSet
        /\ InRange(tOut.bucket, tIn.hour)
        /\ Cardinality({b \in BucketSet : InRange(b, tIn.hour)}) = 1
        /\ tIn.hour = 5 => tOut.bucket = "Early Morning"
        /\ tIn.hour = 4 => tOut.bucket = "Late Night"
        /\ tIn.hour = 23 => tOut.bucket = "Night"

C1_Witness ==
    tOut.kind = "bucket" /\ tIn.hour = 4 /\ tOut.bucket = "Late Night"

C10_UnderOneHourExact ==
    (tOut.kind = "arrival" /\ tIn.duration.min < 60) =>
        tOut.res.arrival_bucket
            = (IF tIn.departure_time = "Late Night" THEN "Night"
               ELSE tIn.departure_time)

\* C10 as amended: the representative hour of a departure bucket re-buckets to
\* that bucket except for Late Night, whose hour 23 lies in Night; with a
\* duration that is under one hour once rounded to the nearest microsecond,
\* ARRIVAL TIME is Night for a Late Night departure and the departure bucket
\* for every other one.
C10_UnderOneHourRounded ==
    tOut.kind = "arrival" =>
        /\ tOut.res.dep_hour = StatedHour(tIn.departure_time)
        /\ (get_time_bucket(tOut.res.dep_hour) = tIn.departure_time)
              <=> (tIn.departure_time # "Late Night")
        /\ tIn.departure_time = "Late Night"
              => get_time_bucket(tOut.res.dep_hour) = "Night"
        /\ RoundedMinutes(tIn.duration) < 60 =>
              tOut.res.arrival_bucket
                  = (IF tIn.departure_time = "Late Night" THEN "Night"
                     ELSE tIn.departure_time)

C10_Witness ==
    /\ tOut.kind = "arrival"
    /\ tIn.departure_time = "Late Night"
    /\ tIn.duration = [min |-> 45, sub |-> 0]
    /\ tOut.res.arrival_bucket = "Night"

\* the rows of the route file for one ordered pair of cities
RowsFor(source, destination) ==
    {i \in 1..Len(disk.route.rows) :
        disk.route.rows[i][1] = source /\ disk.route.rows[i][2] = destination}

\* C3: DURATION is the MIN_DURATION of the (first) row of the route table for
\* the selected ordered pair and no warning is shown exactly when such a row
\* exists; otherwise DURATION is 1.0 and the warning is shown.  The lookup is
\* direction-sensitive.
C3_RouteLookup ==
    run.kind = "page" =>
        LET hit == RowsFor(w.src, w.dst)
        IN  /\ run.input_data["SOURCE CITY"] = w.src
            /\ run.input_data["DESTINATION CITY"] = w.dst
            /\ run.warning <=> (hit = {})
            /\ hit = {} => run.input_data["DURATION"] = [min |-> 60, sub |-> 0]
            /\ hit # {} =>
                  \E i \in hit :
                      /\ \A j \in hit : i <= j
                      /\ run.input_data["DURATION"] = disk.route.rows[i][3]
            /\ (w.src = "Delhi" /\ w.dst = "Mumbai")
                  => run.input_data["DURATION"] = [min |-> 120, sub |-> 0]

C3_Witness ==
    /\ run.kind = "page"
    /\ w.src = "Mumbai"
    /\ w.dst = "Delhi"
    /\ RowsFor("Delhi", "Mumbai") # {}
    /\ RowsFor("Mumbai", "Delhi") = {}
    /\ run.warning
    /\ run.input_data["DURATION"] = [min |-> 60, sub |-> 0]

Rupees(n) == n * UnitsPerRupee

\* C4: a successful prediction yields cgst = sgst = base * 0.025, per-ticket
\* price = base + cgst + sgst = base * 1.05 and total = per-ticket * p, with
\* p the passenger count, an integer in 1..9; base 1000 and p = 2 give 25, 25,
\* 1050 and 2100.
C4_PriceComputation ==
    run.kind = "page" =>
        /\ run.passengers \in 1..9
        /\ run.passengers = w.passengers
        /\ run.display.kind = "price" =>
              LET r == run.display
              IN  /\ r.passengers = run.passengers
                  /\ r.cgst * 40 = r.base_price
                  /\ r.sgst * 40 = r.base_price
                  /\ r.ticket_price = r.base_price + r.cgst + r.sgst
                  /\ r.ticket_price * 20 = r.base_price * 21
                  /\ r.total_price = r.ticket_price * r.passengers
                  /\ (r.base_price = Rupees(1000) /\ r.passengers = 2)
                        => /\ r.cgst = Rupees(25)
                           /\ r.sgst = Rupees(25)
                           /\ r.ticket_price = Rupees(1050)
                           /\ r.total_price = Rupees(2100)

C4_Witness ==
    /\ run.kind = "page"
    /\ run.display.kind = "price"
    /\ run.display.base_price = Rupees(1000)
    /\ run.display.passengers = 2
    /\ run.display.total_price = Rupees(2100)

\* C5: every assembled record has flight date > booking date and DAYS LEFT =
\* flight date - booking date >= 1, whatever booking and flight dates the user
\* has picked before.
C5_DatesOrdered ==
    run.kind = "page" =>
        /\ run.flight_date > run.booking_date
        /\ w.flight.val = run.flight_date
        /\ w.booking.val = run.booking_date
        /\ run.days_left = run.flight_date - run.booking_date
        /\ run.input_data["DAYS LEFT"] = run.days_left
        /\ run.input_data["DAYS LEFT"] >= 1
        /\ run.call.kind = "call" => DfValue(run.call.df, "DAYS LEFT") >= 1

\* the booking date stands on or after the flight date the session began with
C5_Witness ==
    /\ run.kind = "page"
    /\ run.booking_date >= Today + 1
    /\ run.flight_date = run.booking_date + 1
    /\ run.input_data["DAYS LEFT"] = 1

\* C6: the record passed to predict has exactly the 15 fields in the stated
\* order, all assigned in the run that makes the call, each holding the value
\* of the same-named selection or derived feature.
C6_RecordContract ==
    (run.kind = "page" /\ run.call.kind = "call") =>
        LET df == run.call.df
        IN  /\ run.clicked
            /\ DfColumns(df) =
                  <<"AIRLINE", "SOURCE CITY", "STOPS", "DESTINATION CITY",
                    "PRICE CLASS", "BOOKING YEAR", "BOOKING MONTH", "BOOKING DAY",
                    "DAYS LEFT", "FLIGHT YEAR", "FLIGHT MONTH", "FLIGHT DAY",
                    "DEPARTURE TIME", "DURATION", "ARRIVAL TIME">>
            /\ DOMAIN run.input_data = SeqToSet(DfColumns(df))
            /\ \A i \in 1..Len(df) : df[i][2] = run.input_data[df[i][1]]
            /\ df[1][2] = w.airline
            /\ df[2][2] = w.src
            /\ df[3][2] = w.stops
            /\ df[4][2] = w.dst
            /\ df[5][2] = w.class
            /\ <<df[6][2], df[7][2], df[8][2]>>
                  = <<DateOf(w.booking.val).year, DateOf(w.booking.val).month,
                      DateOf(w.booking.val).day>>
            /\ df[9][2] = w.flight.val - w.booking.val
            /\ <<df[10][2], df[11][2], df[12][2]>>
                  = <<DateOf(w.flight.val).year, DateOf(w.flight.val).month,
                      DateOf(w.flight.val).day>>
            /\ df[13][2] = w.dep
            /\ df[14][2] = (IF RowsFor(w.src, w.dst) = {} THEN [min |-> 60, sub |-> 0]
                            ELSE disk.route.rows[CHOOSE i \in RowsFor(w.src, w.dst) :
                                    \A j \in RowsFor(w.src, w.dst) : i <= j][3])
            /\ df[15][2] = StatedBucket(run.arrival_dt.hour)

C6_Witness ==
    /\ run.kind = "page"
    /\ run.call.kind = "call"
    /\ w.src # w.dst
    /\ run.call.df[2] = <<"SOURCE CITY", w.src>>
    /\ run.call.df[4] = <<"DESTINATION CITY", w.dst>>

\* C7: a fault raised by predict ends the interaction in a reported failure
\* carrying the cause, with no price, tax or total; the application goes on:
\* in every later prediction, also after failures, a model that succeeds
\* gives the normal price result.
C7_PredictionFailure ==
    (run.kind = "page" /\ run.call.kind = "call") =>
        LET p == Predict(cache.model, run.call.df)
        IN  /\ ~p.ok => run.display = [kind |-> "error", cause |-> p.cause]
            /\ p.ok => /\ run.display.kind = "price"
                       /\ run.display.base_price = p.paise * UnitsPerPaisa
                       /\ run.display.ticket_price * 20 = run.display.base_price * 21
                       /\ run.display.total_price
                             = run.display.ticket_price * run.call.passengers

C7_Witness ==
    /\ everFailed
    /\ run.kind = "page"
    /\ run.display.kind = "price"

\* C8: two predictions with the same feature record and passenger count give
\* the same base price, taxes, per-ticket price and total, whatever happened
\* before or between them.
C8_Stateless ==
    (run.kind = "page" /\ run.display.kind = "price" /\ run.call = probe.key) =>
        /\ probe.seen >= 1
        /\ run.display = probe.first

C8_Witness ==
    /\ run.kind = "page"
    /\ run.display.kind = "price"
    /\ run.call = probe.key
    /\ probe.seen = 2
    /\ everFailed

\* C9: the model, the feature-name lists and the route table are loaded at
\* most once per process and never written afterwards: every interaction
\* leaves them as they were loaded, and no page is rendered and no prediction
\* made before they are loaded.
C9_LoadedOnce ==
    [][/\ loadCount' <= 1
       /\ cache.loaded => (cache' = cache /\ loadCount' = loadCount)
       /\ cache'.loaded => (cache' = ReadArtifacts(disk) /\ loadCount' = 1)
       /\ run'.kind = "page" => cache'.loaded]_vars

C9_Witness ==
    /\ loadCount = 1
    /\ cache.loaded
    /\ everFailed
    /\ run.kind = "page"
    /\ run.display.kind = "price"

====
